---- MODULE Spec2Model ----
(***************************************************************************)
(* Model of backend/utils/notification.py: the claim-resolution            *)
(* notification workflow (send_claim_resolved_emails), the mail sender     *)
(* (send_email), the user lookup (get_user_email) and the trace logger     *)
(* (log_debug).  Every fallible call of the source (file append, cursor    *)
(* acquisition, execute, fetchone, commit, close, SMTP step) is one step   *)
(* that either returns or raises; a raise is routed to the except clause   *)
(* that encloses the statement in the source.                              *)
(***************************************************************************)
EXTENDS Integers, Sequences, FiniteSets, TLC

VARIABLES
    env,            \* os.environ: the EMAIL_* settings read by send_email
    budget,         \* remaining injected failures; a negative value is "no cap"
    th,             \* per thread: position and locals of the running call
    conn,           \* per connection: state, uncommitted rows, last result set
    cursors,        \* per thread: the cursors the run acquired, in order
    Notifications,  \* committed rows of table Notifications
    email_debug,    \* email_debug.log, per run: the lines that run appended
    crash_debug,    \* crash_debug.log, per run: the lines that run appended
    hist            \* per run: the calls it has made on its collaborators

vars == <<env, budget, th, conn, cursors, Notifications, email_debug,
          crash_debug, hist>>

----------------------------------------------------------------------------
(* Bounds and data *)

\* failures injected in a concurrent exploration
ConcFaults == 1

Threads == {"t1", "t2"}

Party == {"reporter", "claimant"}

\* table Users(user_id, email, name)
UserIds == {1, 2}
UsersTable ==
    [u \in UserIds |->
        IF u = 1 THEN [email |-> "ann@x", name |-> "Ann"]
                 ELSE [email |-> "bob@x", name |-> "Bob"]]

\* table Items(item_id, reported_by, title); item 44 names a user that is gone
ItemIds == {42, 44}
ItemsTable ==
    [i \in ItemIds |->
        IF i = 42 THEN [reported_by |-> 1, title |-> "Blue Backpack"]
                  ELSE [reported_by |-> 3, title |-> "Red Scarf"]]

\* arguments the workflow is called with
ItemArgs == {42, 43, 44}
ClaimantArgs == {1, 2, 3}

ConfigKeys == {"EMAIL_SENDER", "EMAIL_HOST", "EMAIL_USER", "EMAIL_PASS"}
\* os.getenv(k): None when unset, "" when set empty, otherwise a value
EnvValues == {"None", "", "set"}

\* "SELECT email, name FROM Users WHERE user_id = %s": the result set
SelectUser(user_id) ==
    IF user_id \in DOMAIN UsersTable THEN <<UsersTable[user_id]>> ELSE <<>>

\* "SELECT reported_by, title FROM Items WHERE item_id = %s": the result set
SelectItem(item_id) ==
    IF item_id \in DOMAIN ItemsTable THEN <<ItemsTable[item_id]>> ELSE <<>>

\* Python truthiness of a fetched row: None (no row) is falsy
Truthy(row) == row # <<>>

\* variant: one connection shared by all threads
ConnShared(t) == "t1"

\* the connection the db singleton hands to thread t (thread-local)
ConnOf(t) == t

----------------------------------------------------------------------------
(* Helpers *)

Ev(e, p, a) == [ev |-> e, p |-> p, arg |-> a]

Record(t, e) == hist' = [hist EXCEPT ![t] = Append(@, e)]

CanFail == budget # 0
Spend == budget' = IF budget < 0 THEN budget ELSE budget - 1

At(t, l) == th[t].pc = l

\* the except clause that receives an exception raised at position l
Handler(l) ==
    CASE l = "L97" -> "escape"
      [] l \in {"G17", "N82", "N84", "N85", "N86"} -> "escape"
      [] l \in {"L138", "L139", "L141", "L142", "L143", "L144"} -> "L147"
      [] l \in {"L156", "L157", "L159", "L160", "L161", "L162"} -> "L165"
      [] l \in {"S63", "S64", "S65", "S66", "S67", "S68"} -> "S74"
      [] l \in {"G22", "G23", "G24"} -> "G33"
      [] l \in {"L169", "L172"} -> "escape"
      [] OTHER -> "L169"

InitThread(item_id, claimant_id, pc) ==
    [fn |-> IF pc = "L97" THEN "send_claim_resolved_emails" ELSE "-",
     pc |-> pc, item_id |-> item_id, claimant_id |-> claimant_id,
     cursor |-> 0, cursor_notif |-> 0, item_info |-> <<>>, reporter_id |-> 0,
     reporter |-> <<>>, claimant |-> <<>>, who |-> "-", user_id |-> 0,
     user |-> <<>>, should_close |-> FALSE, err |-> "-", exc |-> FALSE,
     term |-> "-", outcome |-> "-"]

Idle == InitThread(0, 0, "idle")

\* a caller outside the workflow calls get_user_email(user_id), no cursor
InitLookup(user_id) ==
    [InitThread(0, 0, "G17") EXCEPT !.fn = "get_user_email",
                                    !.user_id = user_id, !.who = "caller"]

\* a caller outside the workflow calls insert_notification(user_id, ...)
InitInsert(user_id) ==
    [InitThread(0, 0, "N82") EXCEPT !.fn = "insert_notification",
                                    !.user_id = user_id, !.who = "caller"]

RecordAll(t, es) == hist' = [hist EXCEPT ![t] = @ \o es]

\* where an exception raised at position l takes thread t: into the enclosing
\* except clause, through the finally clause, or out of the call
Raise(t, l) ==
    LET h == Handler(l) IN
    IF h = "escape"
    THEN IF l = "L169"
         THEN [th EXCEPT ![t].pc = "L172", ![t].exc = TRUE, ![t].err = l]
         ELSE [th EXCEPT ![t].pc = "done", ![t].outcome = "raised",
                         ![t].err = l]
    ELSE IF h = "L169"
         THEN [th EXCEPT ![t].pc = h, ![t].term = "CRASHED", ![t].err = l]
         ELSE [th EXCEPT ![t].pc = h, ![t].err = l]

\* a step of thread t at position l that raises
Fails(t, l) ==
    /\ CanFail
    /\ Spend
    /\ th' = Raise(t, l)

----------------------------------------------------------------------------
(* log_debug and its call sites *)

LogSite ==
    [L97  |-> [msg |-> "Starting send_claim_resolved_emails", next |-> "L100"],
     L100 |-> [msg |-> "Getting cursor from thread-local db...", next |-> "L101"],
     L104 |-> [msg |-> "Fetching item info...", next |-> "L105"],
     L110 |-> [msg |-> "Item not found.", next |-> "L111"],
     L118 |-> [msg |-> "Fetching reporter...", next |-> "L119"],
     L120 |-> [msg |-> "Fetching claimant...", next |-> "L121"],
     L123 |-> [msg |-> "Closing cursor...", next |-> "L124"],
     L128 |-> [msg |-> "Missing user data.", next |-> "L129"],
     L135 |-> [msg |-> "Sending email to reporter...", next |-> "L136"],
     L138 |-> [msg |-> "Inserting notification for reporter...", next |-> "L139"],
     L144 |-> [msg |-> "Notification inserted.", next |-> "L153"],
     L147 |-> [msg |-> "Error inserting notification", next |-> "L153"],
     L153 |-> [msg |-> "Sending email to claimant...", next |-> "L154"],
     L156 |-> [msg |-> "Inserting notification for claimant...", next |-> "L157"],
     L162 |-> [msg |-> "Notification inserted.", next |-> "L166"],
     L165 |-> [msg |-> "Error inserting notification", next |-> "L166"],
     L169 |-> [msg |-> "CRASH", next |-> "L172"]]

\* log_debug(msg): append one line to crash_debug.log; open or write may raise
log_debug(t) ==
    LET l == th[t].pc IN
    /\ l \in DOMAIN LogSite
    /\ UNCHANGED <<env, conn, cursors, Notifications, email_debug, hist>>
    /\ \/ /\ crash_debug' = [crash_debug EXCEPT ![t] = Append(@, LogSite[l].msg)]
          /\ th' = [th EXCEPT ![t].pc = LogSite[l].next]
          /\ UNCHANGED budget
       \/ /\ Fails(t, l)
          /\ UNCHANGED crash_debug

----------------------------------------------------------------------------
(* send_claim_resolved_emails: the read phase *)

\* line 101: cursor = db.get_cursor(dictionary=True)
GetCursor(t) ==
    /\ At(t, "L101")
    /\ UNCHANGED <<env, Notifications, email_debug, crash_debug>>
    /\ \/ /\ conn' = [conn EXCEPT ![ConnOf(t)].state = "open"]
          /\ cursors' = [cursors EXCEPT ![t] = Append(@, "open")]
          /\ th' = [th EXCEPT ![t].pc = "L104",
                              ![t].cursor = Len(cursors[t]) + 1]
          /\ Record(t, Ev("get_cursor", "-", ConnOf(t)))
          /\ UNCHANGED budget
       \/ /\ Fails(t, "L101")
          /\ UNCHANGED <<conn, cursors, hist>>

\* line 105: cursor.execute("SELECT reported_by, title FROM Items ...")
ExecuteItemQuery(t) ==
    /\ At(t, "L105")
    /\ UNCHANGED <<env, cursors, Notifications, email_debug, crash_debug>>
    /\ \/ /\ conn' = [conn EXCEPT ![ConnOf(t)].result =
                         [by |-> t, rows |-> SelectItem(th[t].item_id)]]
          /\ th' = [th EXCEPT ![t].pc = "L106"]
          /\ Record(t, Ev("query", "-", ConnOf(t)))
          /\ UNCHANGED budget
       \/ /\ Fails(t, "L105")
          /\ UNCHANGED <<conn, hist>>

\* cursor.fetchone() on connection c: the next row of its result set, or None
FetchOne(c) ==
    IF conn[c].result.rows = <<>> THEN <<>> ELSE <<Head(conn[c].result.rows)>>

\* lines 106-115: item_info = cursor.fetchone(); if not item_info: ...
FetchItem(t) ==
    /\ At(t, "L106")
    /\ UNCHANGED <<env, cursors, Notifications, email_debug, crash_debug>>
    /\ \/ /\ LET row == FetchOne(ConnOf(t)) IN
             th' = [th EXCEPT ![t].item_info = row,
                       ![t].reporter_id =
                           IF Truthy(row) THEN row[1].reported_by ELSE 0,
                       ![t].pc = IF Truthy(row) THEN "L118" ELSE "L110"]
          /\ conn' = [conn EXCEPT ![ConnOf(t)].result.rows = <<>>]
          /\ Record(t, Ev("fetch", "-", conn[ConnOf(t)].result.by))
          /\ UNCHANGED budget
       \/ /\ Fails(t, "L106")
          /\ UNCHANGED <<conn, hist>>

\* variant: the read-phase cursor is left open
CloseCursorNoop(t) ==
    /\ th[t].pc \in {"L111", "L124"}
    /\ th' = [th EXCEPT ![t].pc = IF At(t, "L111") THEN "L112" ELSE "L126"]
    /\ UNCHANGED <<env, budget, conn, cursors, Notifications, email_debug,
                   crash_debug, hist>>

\* lines 111 and 124: cursor.close()
CloseCursor(t) ==
    /\ th[t].pc \in {"L111", "L124"}
    /\ UNCHANGED <<env, conn, Notifications, email_debug, crash_debug>>
    /\ \/ /\ cursors' = [cursors EXCEPT ![t][th[t].cursor] = "closed"]
          /\ th' = [th EXCEPT ![t].pc = IF At(t, "L111") THEN "L112" ELSE "L126"]
          /\ Record(t, Ev("cursor_close", "-", "read"))
          /\ UNCHANGED budget
       \/ /\ Fails(t, th[t].pc)
          /\ UNCHANGED <<cursors, hist>>

\* variant: the early returns leave without running the finally clause
ReturnSkipsFinally(t) ==
    /\ th[t].pc \in {"L112", "L129", "L166"}
    /\ th' = IF At(t, "L166")
             THEN [th EXCEPT ![t].pc = "L172", ![t].term = "DONE"]
             ELSE [th EXCEPT ![t].pc = "done", ![t].term = "ABORTED",
                             ![t].outcome = "returned"]
    /\ UNCHANGED <<env, budget, conn, cursors, Notifications, email_debug,
                   crash_debug, hist>>

\* lines 112 and 129: return; the end of the try body (after line 165)
Return(t) ==
    /\ th[t].pc \in {"L112", "L129", "L166"}
    /\ th' = [th EXCEPT ![t].pc = "L172",
                        ![t].term = IF At(t, "L166") THEN "DONE" ELSE "ABORTED"]
    /\ UNCHANGED <<env, budget, conn, cursors, Notifications, email_debug,
                   crash_debug, hist>>

\* line 126: if not reporter or not claimant
CheckUsers(t) ==
    /\ At(t, "L126")
    /\ th' = [th EXCEPT ![t].pc =
                 IF ~Truthy(th[t].reporter) \/ ~Truthy(th[t].claimant)
                 THEN "L128" ELSE "L135"]
    /\ UNCHANGED <<env, budget, conn, cursors, Notifications, email_debug,
                   crash_debug, hist>>

----------------------------------------------------------------------------
(* get_user_email *)

\* lines 119 and 121: get_user_email(reporter_id | claimant_id, cursor=cursor);
\* lines 16-19: the cursor is supplied, so should_close stays False
CallGetUserEmail(t) ==
    /\ th[t].pc \in {"L119", "L121"}
    /\ th' = [th EXCEPT ![t].pc = "G22",
                 ![t].who = IF At(t, "L119") THEN "reporter" ELSE "claimant",
                 ![t].user_id = IF At(t, "L119") THEN th[t].reporter_id
                                ELSE th[t].claimant_id,
                 ![t].user = <<>>,
                 ![t].should_close = FALSE]
    /\ UNCHANGED <<env, budget, conn, cursors, Notifications, email_debug,
                   crash_debug, hist>>

\* the caller's continuation when get_user_email returns v
ReturnUser(t, v) ==
    CASE th[t].who = "reporter" ->
            [th EXCEPT ![t].reporter = v, ![t].pc = "L120"]
      [] th[t].who = "claimant" ->
            [th EXCEPT ![t].claimant = v, ![t].pc = "L123"]
      [] OTHER ->
            [th EXCEPT ![t].user = v, ![t].pc = "done",
                       ![t].outcome = "returned"]

\* the event of get_user_email returning v to its caller
UserRet(t, v) == Ev("user_ret", th[t].who, IF Truthy(v) THEN "found" ELSE "None")

\* lines 16-19: cursor is None: cursor = db.get_cursor(dictionary=True);
\* should_close = True.  The call is made before the try of line 21.
OwnCursor(t) ==
    /\ At(t, "G17")
    /\ UNCHANGED <<env, Notifications, email_debug, crash_debug>>
    /\ \/ /\ conn' = [conn EXCEPT ![ConnOf(t)].state = "open"]
          /\ cursors' = [cursors EXCEPT ![t] = Append(@, "open")]
          /\ th' = [th EXCEPT ![t].pc = "G22", ![t].should_close = TRUE,
                              ![t].cursor = Len(cursors[t]) + 1]
          /\ Record(t, Ev("get_cursor", th[t].who, ConnOf(t)))
          /\ UNCHANGED budget
       \/ /\ Fails(t, "G17")
          /\ UNCHANGED <<conn, cursors, hist>>

\* line 22: cursor.execute("SELECT email, name FROM Users WHERE user_id = %s")
ExecuteUserQuery(t) ==
    /\ At(t, "G22")
    /\ UNCHANGED <<env, cursors, Notifications, email_debug, crash_debug>>
    /\ \/ /\ conn' = [conn EXCEPT ![ConnOf(t)].result =
                         [by |-> t, rows |-> SelectUser(th[t].user_id)]]
          /\ th' = [th EXCEPT ![t].pc = "G23"]
          /\ Record(t, Ev("query", th[t].who, ConnOf(t)))
          /\ UNCHANGED budget
       \/ /\ Fails(t, "G22")
          /\ UNCHANGED <<conn, hist>>

\* line 23: user = cursor.fetchone()
FetchUser(t) ==
    /\ At(t, "G23")
    /\ UNCHANGED <<env, cursors, Notifications, email_debug, crash_debug>>
    /\ \/ /\ th' = [th EXCEPT ![t].user = FetchOne(ConnOf(t)), ![t].pc = "G24"]
          /\ conn' = [conn EXCEPT ![ConnOf(t)].result.rows = <<>>]
          /\ Record(t, Ev("fetch", th[t].who, conn[ConnOf(t)].result.by))
          /\ UNCHANGED budget
       \/ /\ Fails(t, "G23")
          /\ UNCHANGED <<conn, hist>>

\* variant: the cursor is closed whether or not it is our own
UserFoundAlwaysCloses(t) ==
    /\ At(t, "G24")
    /\ UNCHANGED <<env, conn, Notifications, email_debug, crash_debug>>
    /\ \/ /\ th' = ReturnUser(t, th[t].user)
          /\ cursors' = [cursors EXCEPT ![t][th[t].cursor] = "closed"]
          /\ RecordAll(t, <<Ev("cursor_close", th[t].who, "own"),
                             UserRet(t, th[t].user)>>)
          /\ UNCHANGED budget
       \/ /\ Fails(t, "G24")
          /\ Record(t, Ev("cursor_close_raise", th[t].who, "own"))
          /\ UNCHANGED cursors

\* lines 24-30: close the cursor if it is our own; return user, or None
UserFound(t) ==
    /\ At(t, "G24")
    /\ UNCHANGED <<env, conn, Notifications, email_debug, crash_debug>>
    /\ \/ /\ th' = ReturnUser(t, th[t].user)
          /\ cursors' = IF th[t].should_close
                        THEN [cursors EXCEPT ![t][th[t].cursor] = "closed"]
                        ELSE cursors
          /\ IF th[t].should_close
             THEN RecordAll(t, <<Ev("cursor_close", th[t].who, "own"),
                                 UserRet(t, th[t].user)>>)
             ELSE Record(t, UserRet(t, th[t].user))
          /\ UNCHANGED budget
       \/ /\ th[t].should_close
          /\ Fails(t, "G24")
          /\ Record(t, Ev("cursor_close_raise", th[t].who, "own"))
          /\ UNCHANGED cursors

\* lines 31-36: except Exception: close our own cursor, ignoring errors;
\* return None
UserError(t) ==
    /\ At(t, "G33")
    /\ th' = ReturnUser(t, <<>>)
    /\ UNCHANGED <<env, conn, Notifications, email_debug, crash_debug>>
    /\ IF th[t].should_close
       THEN \/ /\ cursors' = [cursors EXCEPT ![t][th[t].cursor] = "closed"]
               /\ RecordAll(t, <<Ev("cursor_close", th[t].who, "own"),
                                  UserRet(t, <<>>)>>)
               /\ UNCHANGED budget
            \/ /\ CanFail
               /\ Spend
               /\ RecordAll(t, <<Ev("cursor_close_raise", th[t].who, "own"),
                                  UserRet(t, <<>>)>>)
               /\ UNCHANGED cursors
       ELSE /\ Record(t, UserRet(t, <<>>))
            /\ UNCHANGED <<cursors, budget>>

----------------------------------------------------------------------------
(* send_email *)

\* recipient_email of the send_email call for party p
Recipient(t, p) ==
    IF p = "reporter" THEN th[t].reporter[1].email ELSE th[t].claimant[1].email

\* variant: the two call sites address each other's party
SendPartySwapped(l) == IF l = "L136" THEN "claimant" ELSE "reporter"

\* line 136 sends to the reporter, line 154 to the claimant
SendParty(l) == IF l = "L136" THEN "reporter" ELSE "claimant"

\* lines 136 and 154: send_email(reporter['email'] | claimant['email'], ...)
CallSendEmail(t) ==
    /\ th[t].pc \in {"L136", "L154"}
    /\ LET p == SendParty(th[t].pc) IN
       /\ th' = [th EXCEPT ![t].pc = "S46", ![t].who = p]
       /\ Record(t, Ev("send_start", p, Recipient(t, p)))
    /\ UNCHANGED <<env, budget, conn, cursors, Notifications, email_debug,
                   crash_debug>>

\* variant: the check leaves out EMAIL_PASS
ConfigCompleteNoPass(e) ==
    \A k \in ConfigKeys \ {"EMAIL_PASS"} : e[k] \notin {"None", ""}

\* line 46: all([sender_email, email_host, email_user, email_pass])
ConfigComplete(e) == \A k \in ConfigKeys : e[k] \notin {"None", ""}

\* variant: the insert block is entered whatever send_email returned
AfterSendAlways(p, ok) == IF p = "reporter" THEN "L138" ELSE "L156"

\* variant: a failed reporter send ends the workflow
AfterSendBlocks(p, ok) ==
    IF p = "reporter" THEN (IF ok THEN "L138" ELSE "L166")
                      ELSE (IF ok THEN "L156" ELSE "L166")

\* lines 136 and 154: if send_email(...): the position after the call returned ok
AfterSend(p, ok) ==
    IF p = "reporter" THEN (IF ok THEN "L138" ELSE "L153")
                      ELSE (IF ok THEN "L156" ELSE "L166")

\* send_email returns ok to the call site of party th[t].who
ReturnSend(t, ok) ==
    /\ th' = [th EXCEPT ![t].pc = AfterSend(th[t].who, ok)]
    /\ Record(t, Ev("send_ret", th[t].who, IF ok THEN "True" ELSE "False"))

\* lines 41-54: configuration incomplete: print and return True
CheckConfig(t) ==
    /\ At(t, "S46")
    /\ IF ConfigComplete(env)
       THEN /\ th' = [th EXCEPT ![t].pc = "S63"]
            /\ UNCHANGED hist
       ELSE ReturnSend(t, TRUE)
    /\ UNCHANGED <<env, budget, conn, cursors, Notifications, email_debug,
                   crash_debug>>

\* variant: the sendmail call is missing from the sequence
SmtpSiteNoSendmail ==
    [S63 |-> [step |-> "connect", next |-> "S64"],
     S64 |-> [step |-> "starttls", next |-> "S65"],
     S65 |-> [step |-> "login", next |-> "S67"],
     S67 |-> [step |-> "quit", next |-> "S68"]]

SmtpSite ==
    [S63 |-> [step |-> "connect", next |-> "S64"],
     S64 |-> [step |-> "starttls", next |-> "S65"],
     S65 |-> [step |-> "login", next |-> "S66"],
     S66 |-> [step |-> "sendmail", next |-> "S67"],
     S67 |-> [step |-> "quit", next |-> "S68"]]

\* lines 63-67: smtplib.SMTP(...), starttls, login, sendmail, quit
SmtpStep(t) ==
    LET l == th[t].pc IN
    /\ l \in DOMAIN SmtpSite
    /\ UNCHANGED <<env, conn, cursors, Notifications, email_debug, crash_debug>>
    /\ \/ /\ th' = [th EXCEPT ![t].pc = SmtpSite[l].next]
          /\ Record(t, Ev("smtp", th[t].who, SmtpSite[l].step))
          /\ UNCHANGED budget
       \/ /\ Fails(t, l)
          /\ UNCHANGED hist

\* lines 68-70: append "SUCCESS: Sent to ..." to email_debug.log; return True
AuditSuccess(t) ==
    /\ At(t, "S68")
    /\ UNCHANGED <<env, conn, cursors, Notifications, crash_debug>>
    /\ \/ /\ email_debug' = [email_debug EXCEPT ![t] = Append(@,
                 [kind |-> "SUCCESS", to |-> Recipient(t, th[t].who),
                  err |-> "-", p |-> th[t].who])]
          /\ ReturnSend(t, TRUE)
          /\ UNCHANGED budget
       \/ /\ Fails(t, "S68")
          /\ UNCHANGED <<email_debug, hist>>

\* lines 71-76: except Exception: append "ERROR sending email to ...: e" to
\* email_debug.log; return False.  The append is not guarded.
AuditError(t) ==
    /\ At(t, "S74")
    /\ UNCHANGED <<env, conn, cursors, Notifications, crash_debug>>
    /\ \/ /\ email_debug' = [email_debug EXCEPT ![t] = Append(@,
                 [kind |-> "ERROR", to |-> Recipient(t, th[t].who),
                  err |-> th[t].err, p |-> th[t].who])]
          /\ ReturnSend(t, FALSE)
          /\ UNCHANGED budget
       \/ /\ CanFail
          /\ Spend
          /\ th' = Raise(t, "S74")
          /\ Record(t, Ev("send_raise", th[t].who, "S74"))
          /\ UNCHANGED email_debug

----------------------------------------------------------------------------
(* send_claim_resolved_emails: the notification inserts and the finally clause *)

\* the party whose insert block (lines 137-147 or 155-165) contains position l
BlockOf(l) ==
    IF l \in {"L138", "L139", "L141", "L142", "L143", "L144", "L147"}
    THEN "reporter" ELSE "claimant"

\* lines 139 and 157: cursor_notif = db.get_cursor()
InsertGetCursor(t) ==
    /\ th[t].pc \in {"L139", "L157"}
    /\ UNCHANGED <<env, Notifications, email_debug, crash_debug>>
    /\ \/ /\ conn' = [conn EXCEPT ![ConnOf(t)].state = "open"]
          /\ cursors' = [cursors EXCEPT ![t] = Append(@, "open")]
          /\ th' = [th EXCEPT ![t].pc = IF At(t, "L139") THEN "L141" ELSE "L159",
                              ![t].cursor_notif = Len(cursors[t]) + 1]
          /\ Record(t, Ev("get_cursor", BlockOf(th[t].pc), ConnOf(t)))
          /\ UNCHANGED budget
       \/ /\ Fails(t, th[t].pc)
          /\ Record(t, Ev("insert_raise", BlockOf(th[t].pc), "get_cursor"))
          /\ UNCHANGED <<conn, cursors>>

\* variant: the reporter's row is written with the claimant's id
NotificationRowWrongUser(t, p) ==
    [user_id |-> th[t].claimant_id,
     type |-> "EMAIL", status |-> "SENT", run |-> t, party |-> p]

\* the row of lines 141 and 159, with the run and party that wrote it
NotificationRow(t, p) ==
    [user_id |-> CASE p = "reporter" -> th[t].reporter_id
                   [] p = "claimant" -> th[t].claimant_id
                   [] OTHER -> th[t].user_id,
     type |-> "EMAIL", status |-> "SENT", run |-> t, party |-> p]

\* lines 141 and 159: cursor_notif.execute("INSERT INTO Notifications ...")
InsertExecute(t) ==
    /\ th[t].pc \in {"L141", "L159"}
    /\ UNCHANGED <<env, cursors, Notifications, email_debug, crash_debug>>
    /\ \/ /\ conn' = [conn EXCEPT ![ConnOf(t)].pending =
                         Append(@, NotificationRow(t, BlockOf(th[t].pc)))]
          /\ th' = [th EXCEPT ![t].pc = IF At(t, "L141") THEN "L142" ELSE "L160"]
          /\ Record(t, Ev("execute", BlockOf(th[t].pc), ConnOf(t)))
          /\ UNCHANGED budget
       \/ /\ Fails(t, th[t].pc)
          /\ Record(t, Ev("insert_raise", BlockOf(th[t].pc), "execute"))
          /\ UNCHANGED conn

\* the rows a commit by thread t on connection c makes durable
Committed(t, c) ==
    [i \in 1..Len(conn[c].pending) |->
        [user_id |-> conn[c].pending[i].user_id,
         type |-> conn[c].pending[i].type,
         status |-> conn[c].pending[i].status,
         run |-> conn[c].pending[i].run,
         party |-> conn[c].pending[i].party,
         committed_by |-> t]]

\* connection c after a commit on it raised: the driver leaves the
\* transaction open, or has rolled it back
AfterFailedCommit(c) == {conn, [conn EXCEPT ![c].pending = <<>>]}

\* lines 142 and 160: db.conn.commit(); no rollback follows a failure
InsertCommit(t) ==
    /\ th[t].pc \in {"L142", "L160"}
    /\ UNCHANGED <<env, cursors, email_debug, crash_debug>>
    /\ \/ /\ Notifications' = Notifications \o Committed(t, ConnOf(t))
          /\ conn' = [conn EXCEPT ![ConnOf(t)].pending = <<>>]
          /\ th' = [th EXCEPT ![t].pc = IF At(t, "L142") THEN "L143" ELSE "L161"]
          /\ Record(t, Ev("commit", BlockOf(th[t].pc), ConnOf(t)))
          /\ UNCHANGED budget
       \/ /\ Fails(t, th[t].pc)
          /\ conn' \in AfterFailedCommit(ConnOf(t))
          /\ Record(t, Ev("insert_raise", BlockOf(th[t].pc), "commit"))
          /\ UNCHANGED Notifications

\* lines 143 and 161: cursor_notif.close()
InsertCloseCursor(t) ==
    /\ th[t].pc \in {"L143", "L161"}
    /\ UNCHANGED <<env, conn, Notifications, email_debug, crash_debug>>
    /\ \/ /\ cursors' = [cursors EXCEPT ![t][th[t].cursor_notif] = "closed"]
          /\ th' = [th EXCEPT ![t].pc = IF At(t, "L143") THEN "L144" ELSE "L162"]
          /\ Record(t, Ev("cursor_close", BlockOf(th[t].pc), "notif"))
          /\ UNCHANGED budget
       \/ /\ Fails(t, th[t].pc)
          /\ Record(t, Ev("insert_raise", BlockOf(th[t].pc), "close"))
          /\ UNCHANGED cursors

\* lines 170-172: finally: db.close(); then the call returns, or re-raises the
\* exception that left the except clause, or raises the one db.close raised
DbClose(t) ==
    /\ At(t, "L172")
    /\ Record(t, Ev("db_close", "-", ConnOf(t)))
    /\ UNCHANGED <<env, cursors, Notifications, email_debug, crash_debug>>
    /\ \/ /\ conn' = [conn EXCEPT ![ConnOf(t)].state = "closed",
                                  ![ConnOf(t)].pending = <<>>]
          /\ th' = [th EXCEPT ![t].pc = "done",
                       ![t].outcome = IF th[t].exc THEN "raised" ELSE "returned"]
          /\ UNCHANGED budget
       \/ /\ Fails(t, "L172")
          /\ UNCHANGED conn

----------------------------------------------------------------------------
(* insert_notification *)

\* line 82: cursor = db.get_cursor()
NotifGetCursor(t) ==
    /\ At(t, "N82")
    /\ UNCHANGED <<env, Notifications, email_debug, crash_debug>>
    /\ \/ /\ conn' = [conn EXCEPT ![ConnOf(t)].state = "open"]
          /\ cursors' = [cursors EXCEPT ![t] = Append(@, "open")]
          /\ th' = [th EXCEPT ![t].pc = "N84",
                              ![t].cursor = Len(cursors[t]) + 1]
          /\ Record(t, Ev("get_cursor", th[t].who, ConnOf(t)))
          /\ UNCHANGED budget
       \/ /\ Fails(t, "N82")
          /\ UNCHANGED <<conn, cursors, hist>>

\* lines 83-84: cursor.execute("INSERT INTO Notifications ...", (user_id,
\* message, notification_type, Notification.STATUSES['SENT']))
NotifExecute(t) ==
    /\ At(t, "N84")
    /\ UNCHANGED <<env, cursors, Notifications, email_debug, crash_debug>>
    /\ \/ /\ conn' = [conn EXCEPT ![ConnOf(t)].pending =
                         Append(@, NotificationRow(t, th[t].who))]
          /\ th' = [th EXCEPT ![t].pc = "N85"]
          /\ Record(t, Ev("execute", th[t].who, ConnOf(t)))
          /\ UNCHANGED budget
       \/ /\ Fails(t, "N84")
          /\ UNCHANGED <<conn, hist>>

\* line 85: db.conn.commit()
NotifCommit(t) ==
    /\ At(t, "N85")
    /\ UNCHANGED <<env, cursors, email_debug, crash_debug>>
    /\ \/ /\ Notifications' = Notifications \o Committed(t, ConnOf(t))
          /\ conn' = [conn EXCEPT ![ConnOf(t)].pending = <<>>]
          /\ th' = [th EXCEPT ![t].pc = "N86"]
          /\ Record(t, Ev("commit", th[t].who, ConnOf(t)))
          /\ UNCHANGED budget
       \/ /\ Fails(t, "N85")
          /\ conn' \in AfterFailedCommit(ConnOf(t))
          /\ UNCHANGED <<Notifications, hist>>

\* line 86: cursor.close(); then the function returns
NotifCloseCursor(t) ==
    /\ At(t, "N86")
    /\ UNCHANGED <<env, conn, Notifications, email_debug, crash_debug>>
    /\ \/ /\ cursors' = [cursors EXCEPT ![t][th[t].cursor] = "closed"]
          /\ th' = [th EXCEPT ![t].pc = "done", ![t].outcome = "returned"]
          /\ Record(t, Ev("cursor_close", th[t].who, "own"))
          /\ UNCHANGED budget
       \/ /\ Fails(t, "N86")
          /\ UNCHANGED <<cursors, hist>>

----------------------------------------------------------------------------
(* Specifications *)

NoConn == [state |-> "none", pending |-> <<>>,
           result |-> [by |-> "-", rows |-> <<>>]]

InitShared ==
    /\ conn = [c \in Threads |-> NoConn]
    /\ cursors = [t \in Threads |-> <<>>]
    /\ Notifications = <<>>
    /\ email_debug = [t \in Threads |-> <<>>]
    /\ crash_debug = [t \in Threads |-> <<>>]
    /\ hist = [t \in Threads |-> <<>>]

\* the calls a thread can make: the workflow, or one of the two functions that
\* other modules call directly
Calls ==
    {InitThread(i, c, "L97") : i \in ItemArgs, c \in ClaimantArgs}
    \cup {InitLookup(u) : u \in ClaimantArgs}
    \cup {InitInsert(u) : u \in UserIds}

\* the calls of a concurrent exploration: item 42 and existing users
ConcCalls ==
    {InitThread(42, c, "L97") : c \in UserIds}
    \cup {InitLookup(1), InitInsert(1)}

\* one call, any arguments, any environment, any number of failing steps
Init ==
    /\ env \in [ConfigKeys -> EnvValues]
    /\ budget = -1
    /\ \E call \in Calls :
          th = [t \in Threads |-> IF t = "t1" THEN call ELSE Idle]
    /\ InitShared

\* one call on each thread, running concurrently
InitConc ==
    /\ env = [k \in ConfigKeys |-> "set"]
    /\ budget = ConcFaults
    /\ th \in [Threads -> ConcCalls]
    /\ th["t1"].fn = "send_claim_resolved_emails"
    /\ InitShared

Step(t) ==
    \/ log_debug(t)
    \/ GetCursor(t)
    \/ ExecuteItemQuery(t)
    \/ FetchItem(t)
    \/ CloseCursor(t)
    \/ Return(t)
    \/ CheckUsers(t)
    \/ CallGetUserEmail(t)
    \/ ExecuteUserQuery(t)
    \/ FetchUser(t)
    \/ UserFound(t)
    \/ UserError(t)
    \/ OwnCursor(t)
    \/ NotifGetCursor(t)
    \/ NotifExecute(t)
    \/ NotifCommit(t)
    \/ NotifCloseCursor(t)
    \/ CallSendEmail(t)
    \/ CheckConfig(t)
    \/ SmtpStep(t)
    \/ AuditSuccess(t)
    \/ AuditError(t)
    \/ InsertGetCursor(t)
    \/ InsertExecute(t)
    \/ InsertCommit(t)
    \/ InsertCloseCursor(t)
    \/ DbClose(t)

Next == \E t \in Threads : Step(t)

Spec == Init /\ [][Next]_vars

SpecConc == InitConc /\ [][Next]_vars

----------------------------------------------------------------------------
(* Vocabulary of the properties *)

Finished(t) == th[t].pc = "done"

\* thread t runs send_claim_resolved_emails
Workflow(t) == th[t].fn = "send_claim_resolved_emails"

\* positions in the history of run t of the events named e for party p
Events(t, e, p) ==
    {i \in DOMAIN hist[t] : hist[t][i].ev = e /\ hist[t][i].p = p}

\* the send_email call of run t for party p has returned v ("True" | "False")
SendReturned(t, p, v) ==
    \E i \in Events(t, "send_ret", p) : hist[t][i].arg = v

\* committed Notification rows written by run t for party p
Rows(t, p) ==
    {i \in DOMAIN Notifications :
        Notifications[i].run = t /\ Notifications[i].party = p}

\* lines of the mail audit trail that run t appended for party p
AuditLines(t, p) ==
    {i \in DOMAIN email_debug[t] : email_debug[t][i].p = p}

SendEvents == {"send_start", "smtp", "send_ret", "send_raise"}
InsertEvents == {"execute", "commit"}
DbEvents == {"get_cursor", "query", "fetch", "execute", "commit", "cursor_close"}
SmtpPositions == {"S63", "S64", "S65", "S66", "S67"}

----------------------------------------------------------------------------
(* C1 *)

\* C1 as stated: at the end of a run, for each party, exactly one row has been
\* inserted if the send for that party returned success and none otherwise,
\* whatever the outcome of the insert's execute and commit.
C1_RowIffSendSucceeded ==
    \A t \in Threads : \A p \in Party :
        Finished(t) =>
            Cardinality(Rows(t, p)) = IF SendReturned(t, p, "True") THEN 1 ELSE 0

\* C1 (amended): a row is inserted for a party only if the send for that party
\* returned success, never after a failure and never twice; when the insert's
\* execute and commit have both returned, exactly one row is inserted.
C1_RowOnlyIfSendSucceeded ==
    \A t \in Threads : \A p \in Party :
        /\ Cardinality(Rows(t, p)) <= 1
        /\ Cardinality(Events(t, "execute", p)) <= 1
        /\ (Rows(t, p) # {} \/ Events(t, "execute", p) # {})
              => SendReturned(t, p, "True")
        /\ SendReturned(t, p, "False")
              => Rows(t, p) = {} /\ Events(t, "execute", p) = {}
        /\ Events(t, "commit", p) # {} => Cardinality(Rows(t, p)) = 1

\* a finished run whose reporter send succeeded and left one row, and whose
\* claimant send failed and left none
C1_Witness ==
    \E t \in Threads :
        /\ Finished(t)
        /\ SendReturned(t, "reporter", "True")
        /\ Cardinality(Rows(t, "reporter")) = 1
        /\ SendReturned(t, "claimant", "False")
        /\ Rows(t, "claimant") = {}

----------------------------------------------------------------------------
(* C2 *)

\* run t has had a send_email call addressed to email return success
SentOkTo(t, email) ==
    \E p \in Party :
        \E i \in Events(t, "send_start", p) :
            /\ hist[t][i].arg = email
            /\ \E j \in Events(t, "send_ret", p) : j > i /\ hist[t][j].arg = "True"

\* rows written by run t: committed, or executed and not yet committed
Written(t) ==
    {Notifications[i].user_id : i \in {j \in DOMAIN Notifications :
                                          Notifications[j].run = t}}
    \cup {conn[c].pending[i].user_id : c \in {ConnOf(t)},
                                         i \in DOMAIN conn[ConnOf(t)].pending}

----------------------------------------------------------------------------
(* C3 *)

\* the item and both users were found by run t
BothFound(t) ==
    Truthy(th[t].item_info) /\ Truthy(th[t].reporter) /\ Truthy(th[t].claimant)

\* C3 as stated: in every run that found the item and both users the claimant
\* send is attempted exactly once; when the reporter send failed and the
\* claimant send succeeded the run ends normally in DONE with exactly one
\* row, the claimant's.
C3_ClaimantAlwaysAttempted ==
    \A t \in Threads :
        (Finished(t) /\ BothFound(t)) =>
            /\ Cardinality(Events(t, "send_start", "claimant")) = 1
            /\ (SendReturned(t, "reporter", "False")
                  /\ SendReturned(t, "claimant", "True"))
                  => /\ th[t].term = "DONE"
                     /\ th[t].outcome = "returned"
                     /\ Rows(t, "reporter") = {}
                     /\ Cardinality(Rows(t, "claimant")) = 1

\* C3 (amended): the claimant send is attempted at most once, and exactly
\* once in every run that ends in DONE, whatever the reporter send returned;
\* after a reporter send that returned failure the run is at the claimant's
\* trace line and send unless it crashed there.  When the reporter send
\* failed and the claimant send succeeded there is no reporter row and at
\* most one claimant row, exactly one once the claimant's commit returned.
C3_FailedReporterDoesNotBlock ==
    \A t \in Threads :
        /\ Cardinality(Events(t, "send_start", "claimant")) <= 1
        /\ th[t].term = "DONE" =>
              /\ BothFound(t)
              /\ Cardinality(Events(t, "send_start", "claimant")) = 1
              /\ Cardinality(Events(t, "send_ret", "reporter")) = 1
              /\ Cardinality(Events(t, "send_ret", "claimant")) = 1
        /\ (SendReturned(t, "reporter", "False")
              /\ Events(t, "send_start", "claimant") = {})
              => th[t].pc \in {"L153", "L154"} \/ th[t].term = "CRASHED"
        /\ (SendReturned(t, "reporter", "False")
              /\ SendReturned(t, "claimant", "True"))
              => /\ Rows(t, "reporter") = {}
                 /\ Cardinality(Rows(t, "claimant")) <= 1
                 /\ Events(t, "commit", "claimant") # {}
                       => Cardinality(Rows(t, "claimant")) = 1

\* a run that ended in DONE after a failed reporter send and a successful
\* claimant send, with the claimant's row alone
C3_Witness ==
    \E t \in Threads :
        /\ Finished(t)
        /\ th[t].term = "DONE"
        /\ th[t].outcome = "returned"
        /\ SendReturned(t, "reporter", "False")
        /\ SendReturned(t, "claimant", "True")
        /\ Rows(t, "reporter") = {}
        /\ Cardinality(Rows(t, "claimant")) = 1

----------------------------------------------------------------------------
(* C4 *)

\* C4: the reporter send has returned before the claimant send is attempted;
\* every reporter send step and the reporter insert come before the claimant
\* send attempt; the audit lines of a run are in reporter-then-claimant order.
C4_ReporterBeforeClaimant ==
    \A t \in Threads :
        /\ \A i \in Events(t, "send_start", "claimant") :
              /\ \E j \in Events(t, "send_ret", "reporter") : j < i
              /\ \A j \in DOMAIN hist[t] :
                    (hist[t][j].p = "reporter"
                       /\ hist[t][j].ev \in SendEvents \cup InsertEvents)
                    => j < i
        /\ \A i \in Events(t, "send_start", "reporter") :
              \A j \in DOMAIN hist[t] :
                  (j > i /\ hist[t][j].ev \in SendEvents
                         /\ Events(t, "send_ret", "reporter") = {})
                  => hist[t][j].p = "reporter"
        /\ \A i, j \in DOMAIN email_debug[t] :
              (i < j /\ email_debug[t][i].p = "claimant")
              => email_debug[t][j].p = "claimant"

\* a finished run with a reporter audit line, a reporter insert and then a
\* claimant audit line
C4_Witness ==
    \E t \in Threads :
        /\ Finished(t)
        /\ Len(email_debug[t]) = 2
        /\ email_debug[t][1].p = "reporter"
        /\ email_debug[t][2].p = "claimant"
        /\ Events(t, "execute", "reporter") # {}

----------------------------------------------------------------------------
(* C5 *)

\* C5 as stated: no exception escapes send_claim_resolved_emails, whichever
\* steps fail, and a run that crashed has a CRASH line in the workflow trace.
C5_NoExceptionEscapes ==
    \A t \in {u \in Threads : Workflow(u)} :
        /\ th[t].outcome # "raised"
        /\ (Finished(t) /\ th[t].term = "CRASHED")
              => \E i \in DOMAIN crash_debug[t] : crash_debug[t][i] = "CRASH"

----------------------------------------------------------------------------
(* C6 *)

\* C6: a run that ended in DONE, ABORTED or CRASHED has called db.close, once,
\* after its last cursor acquisition, query, fetch, insert and commit; when
\* the call returned normally the connection is closed.
C6_ConnectionClosedLast ==
    \A t \in {u \in Threads : Workflow(u)} :
        /\ (Finished(t) /\ th[t].term \in {"DONE", "ABORTED", "CRASHED"})
              => Cardinality(Events(t, "db_close", "-")) = 1
        /\ \A i \in Events(t, "db_close", "-") :
              \A j \in DOMAIN hist[t] : j > i => hist[t][j].ev \notin DbEvents
        /\ (Finished(t) /\ th[t].outcome = "returned")
              => /\ conn[ConnOf(t)].state = "closed"
                 /\ conn[ConnOf(t)].pending = <<>>

\* a run that crashed after a commit and has closed its connection
C6_Witness ==
    \E t \in Threads :
        /\ Finished(t)
        /\ th[t].term = "CRASHED"
        /\ Events(t, "commit", "reporter") # {}
        /\ Events(t, "db_close", "-") # {}
        /\ conn[ConnOf(t)].state = "closed"

----------------------------------------------------------------------------
(* C7 *)

\* C7 as stated: every cursor a run acquired has been closed when the run
\* returns, on every exit path.
C7_AllCursorsClosed ==
    \A t \in {u \in Threads : Workflow(u)} :
        Finished(t) => \A i \in DOMAIN cursors[t] : cursors[t][i] = "closed"

----------------------------------------------------------------------------
(* C8 *)

\* run t holds a cursor of its connection and has not reached its db.close
Using(t) ==
    /\ \E i \in DOMAIN hist[t] : hist[t][i].ev = "get_cursor"
    /\ Events(t, "db_close", "-") = {}

----------------------------------------------------------------------------
(* C9 *)

\* C9 as stated: with complete configuration send_email never raises; when a
\* transport step raised it returns False and has appended exactly one line,
\* with the recipient and the error, to the mail audit trail.
C9_SendEmailNeverRaises ==
    \A t \in Threads : \A p \in Party :
        /\ Events(t, "send_raise", p) = {}
        /\ SendReturned(t, p, "False")
              => /\ Cardinality(AuditLines(t, p)) = 1
                 /\ \A i \in AuditLines(t, p) :
                       /\ email_debug[t][i].kind = "ERROR"
                       /\ email_debug[t][i].to = Recipient(t, p)

----------------------------------------------------------------------------
(* C10 *)

\* C10: when a required mail setting is absent or empty, every send_email
\* call returns success at once: no transport step is performed, nothing is
\* appended to the mail audit trail, no call returns failure or raises.
C10_UnconfiguredSendSucceeds ==
    (\E k \in ConfigKeys : env[k] = "None" \/ env[k] = "") =>
        \A t \in Threads :
            /\ email_debug[t] = <<>>
            /\ th[t].pc \notin SmtpPositions \cup {"S68", "S74"}
            /\ \A i \in DOMAIN hist[t] :
                  /\ hist[t][i].ev \notin {"smtp", "send_raise"}
                  /\ hist[t][i].ev = "send_ret" => hist[t][i].arg = "True"
            /\ \A p \in Party :
                  Cardinality(Events(t, "send_start", p)) =
                      Cardinality(Events(t, "send_ret", p))
                      + (IF th[t].pc = "S46" /\ th[t].who = p THEN 1 ELSE 0)

\* both sends of a run returned success with EMAIL_PASS set empty
C10_Witness ==
    \E t \in Threads :
        /\ env["EMAIL_PASS"] = ""
        /\ env["EMAIL_HOST"] = "set"
        /\ SendReturned(t, "reporter", "True")
        /\ SendReturned(t, "claimant", "True")

----------------------------------------------------------------------------
(* C11 *)

\* a lookup of run t returned None to the workflow
LookupMissed(t) ==
    \E p \in Party : \E i \in Events(t, "user_ret", p) : hist[t][i].arg = "None"

\* run t fetched the item row and found none
ItemNotFound(t) ==
    /\ Events(t, "fetch", "-") # {}
    /\ ~Truthy(th[t].item_info)

\* C11 as stated: when the item id is not in Items, or a user lookup returns
\* not-found, the run calls send_email zero times, inserts zero rows and ends
\* without raising; when the item is not found no user lookup is performed
\* and the trace has a line noting that the item was not found.
C11_NotFoundStopsCleanly ==
    \A t \in {u \in Threads : Workflow(u)} :
        /\ (th[t].item_id \notin DOMAIN ItemsTable \/ LookupMissed(t))
              => /\ \A p \in Party :
                       /\ Events(t, "send_start", p) = {}
                       /\ Events(t, "execute", p) = {}
                       /\ Rows(t, p) = {}
                 /\ th[t].outcome # "raised"
        /\ ItemNotFound(t)
              => /\ \A p \in Party : Events(t, "query", p) = {}
                 /\ Finished(t)
                       => \E i \in DOMAIN crash_debug[t] :
                             crash_debug[t][i] = "Item not found."

----------------------------------------------------------------------------
(* C12 *)

\* C12 as stated: get_user_email never raises; for a user id that is not in
\* Users, and for every failure of acquiring the cursor, executing the query
\* or fetching the row, with a borrowed or an own cursor, it returns None.
C12_LookupNeverRaises ==
    \A t \in Threads :
        /\ th[t].fn = "get_user_email"
              => /\ th[t].outcome # "raised"
                 /\ Finished(t)
                       => /\ Events(t, "user_ret", "caller") # {}
                          /\ (th[t].user_id \notin DOMAIN UsersTable
                                \/ th[t].err # "-")
                                => ~Truthy(th[t].user)
        /\ (Workflow(t) /\ th[t].who = "claimant")
              => /\ Events(t, "user_ret", "reporter") # {}
                 /\ th[t].reporter_id \notin DOMAIN UsersTable
                       => ~Truthy(th[t].reporter)

----------------------------------------------------------------------------
(* C13 *)

\* attempts of run t to close the cursor get_user_email holds for caller p
CloseAttempts(t, p) ==
    {i \in DOMAIN hist[t] :
        /\ hist[t][i].ev \in {"cursor_close", "cursor_close_raise"}
        /\ hist[t][i].p = p /\ hist[t][i].arg = "own"}

\* C13 as stated: get_user_email never closes a cursor its caller supplied,
\* and a cursor it acquired itself is closed when it has returned, on every
\* path.
C13_OwnCursorAlwaysClosed ==
    \A t \in Threads :
        /\ Workflow(t) => \A p \in Party : CloseAttempts(t, p) = {}
        /\ (th[t].fn = "get_user_email" /\ th[t].cursor # 0 /\ Finished(t))
              => cursors[t][th[t].cursor] = "closed"

\* C13 (amended): get_user_email never closes a cursor its caller supplied:
\* the workflow's read cursor stays open until the workflow closes it; with
\* its own cursor, get_user_email calls close before it returns on every
\* path, and the cursor is closed unless close itself raised.
C13_CursorOwnership ==
    \A t \in Threads :
        /\ Workflow(t)
              => /\ \A p \in Party : CloseAttempts(t, p) = {}
                 /\ (th[t].cursor # 0 /\ Events(t, "cursor_close", "-") = {})
                       => cursors[t][th[t].cursor] = "open"
        /\ (th[t].fn = "get_user_email" /\ th[t].cursor # 0)
              => /\ \A i \in Events(t, "user_ret", "caller") :
                       \E j \in CloseAttempts(t, "caller") : j < i
                 /\ Finished(t) => Events(t, "user_ret", "caller") # {}
                 /\ cursors[t][th[t].cursor] = "closed"
                       <=> Events(t, "cursor_close", "caller") # {}
                 /\ (Finished(t) /\ Events(t, "cursor_close_raise", "caller") = {})
                       => cursors[t][th[t].cursor] = "closed"

\* a direct call whose fetch raised has returned None with its cursor closed
C13_Witness ==
    \E t \in Threads :
        /\ th[t].fn = "get_user_email"
        /\ Finished(t)
        /\ th[t].err = "G23"
        /\ cursors[t] = <<"closed">>

----------------------------------------------------------------------------
(* C14 *)

\* C14 as stated: insert_notification inserts exactly one row with status
\* SENT and commits it before returning; a failing execute or commit is
\* caught inside it (it does not raise) and its cursor is closed.
C14_InsertNotificationContained ==
    \A t \in Threads :
        th[t].fn = "insert_notification"
            => /\ th[t].outcome # "raised"
               /\ Finished(t)
                     => /\ \A i \in DOMAIN cursors[t] : cursors[t][i] = "closed"
                        /\ th[t].err = "-"
                              => /\ Cardinality(Rows(t, "caller")) = 1
                                 /\ \A i \in Rows(t, "caller") :
                                       Notifications[i].status = "SENT"

----------------------------------------------------------------------------
(* C15 *)

\* the transport step named step has been performed for party p in run t
Performed(t, p, step) ==
    \E i \in Events(t, "smtp", p) : hist[t][i].arg = step

\* C15 as stated: when every transport step succeeded send_email returns
\* success with exactly one SUCCESS audit line naming the recipient, and a
\* message that sendmail accepted is never reported as a failure.
C15_AcceptedMessageReportedSent ==
    \A t \in Threads : \A p \in Party :
        /\ Performed(t, p, "sendmail") => ~SendReturned(t, p, "False")
        /\ (Performed(t, p, "quit")
              /\ Events(t, "send_ret", p) \cup Events(t, "send_raise", p) # {})
              => /\ SendReturned(t, p, "True")
                 /\ Cardinality(AuditLines(t, p)) = 1
                 /\ \A i \in AuditLines(t, p) :
                       /\ email_debug[t][i].kind = "SUCCESS"
                       /\ email_debug[t][i].to = Recipient(t, p)

----------------------------------------------------------------------------
(* C16 *)

\* C16 as stated: a failure of a party's insert after a successful send is
\* caught locally: the run still attempts the claimant send and ends in
\* DONE, with no CRASH line in the trace.
C16_InsertFailureEndsDone ==
    \A t \in {u \in Threads : Workflow(u)} : \A p \in Party :
        (Finished(t) /\ Events(t, "insert_raise", p) # {})
            => /\ th[t].term = "DONE"
               /\ \A i \in DOMAIN crash_debug[t] : crash_debug[t][i] # "CRASH"
               /\ Events(t, "send_start", "claimant") # {}

----------------------------------------------------------------------------
(* C17 *)

\* the stage of the workflow an event belongs to
Stage(e) ==
    CASE e.ev = "db_close" -> 7
      [] e.p = "claimant" /\ e.ev \in SendEvents -> 5
      [] e.p = "claimant" /\ e.ev \in {"get_cursor", "execute", "commit",
                                       "cursor_close", "insert_raise"} -> 6
      [] e.p = "reporter" /\ e.ev \in SendEvents -> 3
      [] e.p = "reporter" /\ e.ev \in {"get_cursor", "execute", "commit",
                                       "cursor_close", "insert_raise"} -> 4
      [] e.p = "-" /\ e.ev \in {"get_cursor", "query", "fetch"} -> 1
      [] OTHER -> 2

\* C17 as stated, for a run that has stopped: its events are in stage order,
\* it is in exactly one of DONE, ABORTED, CRASHED, and from the moment the
\* terminal state is reached it makes no send_email call and no insert.
C17_StagesThenTerminal ==
    \A t \in {u \in Threads : Workflow(u)} :
        /\ \A i, j \in DOMAIN hist[t] :
              i < j => Stage(hist[t][i]) <= Stage(hist[t][j])
        /\ th[t].term # "-" => th[t].pc \in {"L169", "L172", "done"}
        /\ Finished(t) => th[t].term \in {"DONE", "ABORTED", "CRASHED"}

----------------------------------------------------------------------------
(* C18 *)

\* C18 as stated: every row a run wrote for a party follows a sendmail of a
\* message to that party in the same run, in every configuration.
C18_RowImpliesDispatch ==
    \A t \in {u \in Threads : Workflow(u)} : \A p \in Party :
        (Rows(t, p) # {} \/ Events(t, "execute", p) # {})
            => Performed(t, p, "sendmail")

\* C18 (amended): when all four mail settings are set, every row a run wrote
\* for a party follows a sendmail of a message to that party's address in the
\* same run; with a setting missing the rows are written with no dispatch.
C18_RowImpliesDispatchWhenConfigured ==
    \A t \in {u \in Threads : Workflow(u)} : \A p \in Party :
        (Rows(t, p) # {} \/ Events(t, "execute", p) # {})
            => IF \A k \in ConfigKeys : env[k] = "set"
               THEN /\ Performed(t, p, "sendmail")
                    /\ \E i \in Events(t, "send_start", p) :
                          hist[t][i].arg = Recipient(t, p)
               ELSE Events(t, "smtp", p) = {}

\* a configured run has committed the claimant's row after its sendmail
C18_Witness ==
    \E t \in Threads :
        /\ \A k \in ConfigKeys : env[k] = "set"
        /\ Rows(t, "claimant") # {}
        /\ Performed(t, "claimant", "sendmail")

----------------------------------------------------------------------------
(* C19 *)

SendPositions == {"S46", "S68", "S74"} \cup SmtpPositions

\* C19: while a send_email call is in progress the read-phase cursor is
\* closed, and no notification cursor is open unless the reporter's insert
\* failed; a party's notification cursor is acquired after that party's send
\* returned success.
C19_NoCursorHeldWhileSending ==
    \A t \in {u \in Threads : Workflow(u)} :
        /\ th[t].pc \in SendPositions
              => /\ th[t].cursor # 0
                 /\ cursors[t][th[t].cursor] = "closed"
                 /\ Events(t, "insert_raise", "reporter") = {}
                       => \A i \in DOMAIN cursors[t] : cursors[t][i] = "closed"
        /\ \A p \in Party :
              \A i \in Events(t, "get_cursor", p) :
                  \E j \in Events(t, "send_ret", p) :
                      j < i /\ hist[t][j].arg = "True"

\* the claimant's sendmail is about to run with both earlier cursors closed
C19_Witness ==
    \E t \in Threads :
        /\ th[t].pc = "S66"
        /\ th[t].who = "claimant"
        /\ cursors[t] = <<"closed", "closed">>

----------------------------------------------------------------------------
(* C20 *)

\* C20 as stated: when the reporter's commit raised, no reporter row becomes
\* durable later in the run; whenever a send_email call starts, the run's
\* connection holds no uncommitted insert.
C20_InsertCommittedInOwnStep ==
    \A t \in {u \in Threads : Workflow(u)} :
        /\ (\E i \in Events(t, "insert_raise", "reporter") :
               hist[t][i].arg = "commit")
              => Rows(t, "reporter") = {}
        /\ th[t].pc = "S46" => conn[ConnOf(t)].pending = <<>>

====
